---------------------------- MODULE Spec2Model ----------------------------
(***************************************************************************)
(* Pairing-code lifecycle of the WhatsApp pairing service.                 *)
(*                                                                         *)
(* The repository holds two in-memory variants of the same server and a    *)
(* third, MongoDB-backed pairing service (src/pairing-server.js), whose    *)
(* collections and request handlers are the variables pairingDocs,         *)
(* botSessionDocs, codeJobs and linkJobs below.  The in-memory variants:   *)
(*   "server"  src/server.js          (v5.5.0, no collision check, a demo  *)
(*                                     code on every QR event)             *)
(*   "part"    src/unnamed/part_000   (v5.3.0, collision loop with suffix  *)
(*                                     fallback, minute sweep)             *)
(* The variable `variant` is fixed in Init and selects the code that each  *)
(* action follows.  Strings the code inspects character by character       *)
(* (codes, phone numbers) are tuples of one-character strings.             *)
(*                                                                         *)
(* Time is a clock in minutes (CODE_EXPIRY_MINUTES is in minutes) that is   *)
(* read every TickMinutes.  Left out of the state: qrImageDataUrl and the  *)
(* record fields qrData, qrImage and attempts, which are written and never *)
(* read back by the server, and activeSocket, likewise.                    *)
(***************************************************************************)
EXTENDS Integers, Sequences, FiniteSets, TLC

\* ------------------------------------------------------------------ bounds
\* Number of generateNewPairingCode calls in a run.
MaxSessions == 2
\* Last minute the clock reaches, and the minutes between two readings of it.
MaxTime == 15
TickMinutes == 5
\* Number of distinct values floor(Math.random() * 36) takes in a run.
NumRandomIndices == 2
\* Handlers suspended at an await of QRCode.toDataURL, per handler kind.
MaxInflight == 1
\* Number of verifyPairingCodeInBot calls in a run.
MaxVerifyCalls == 2
\* Number of /api/generate-code requests pairing-server.js accepts in a run.
MaxRequests == 2

\* ------------------------------------------------------- program constants
CODE_LENGTH == 8
CODE_EXPIRY_MINUTES == 10
\* attempts < 10 in the collision loop of part_000
MaxAttempts == 10
\* linkedAt: null
NullTime == -1

Variants == {"server", "part"}

\* linkedTo: null / lastGeneratedCode: null / currentQR: null
Null == "null"
NullCode == <<>>

\* const chars = 'ABCDEFGHIJKLMNOPQRSTUVWXYZ0123456789'
chars ==
  << "A","B","C","D","E","F","G","H","I","J","K","L","M",
     "N","O","P","Q","R","S","T","U","V","W","X","Y","Z",
     "0","1","2","3","4","5","6","7","8","9" >>

UpperLetters == { chars[i] : i \in 1..26 }
DigitChars == { chars[i] : i \in 27..36 }

\* chars.charAt(i), i counted from 0
charAt(i) == chars[i + 1]

\* The values floor(Math.random() * chars.length) takes: letters and digits
\* alternately (0 -> 'A', 26 -> '0', 1 -> 'B', 27 -> '1', ...).
RandomIndex(n) == IF n % 2 = 1 THEN (n - 1) \div 2 ELSE 26 + ((n - 2) \div 2)

RandomIndices == { RandomIndex(n) : n \in 1..NumRandomIndices }

\* One call's CODE_LENGTH draws: the first draw and the value the remaining
\* draws repeat.
RandomDraws ==
  { [k \in 1..CODE_LENGTH |-> IF k = 1 THEN i ELSE j] :
      i \in RandomIndices, j \in RandomIndices }

\* for (i < CODE_LENGTH) code += chars.charAt(draw)
CodeOfDraws(d) == [k \in 1..CODE_LENGTH |-> charAt(d[k])]

\* /[A-Z]/.test(code)
hasLetters(code) == \E k \in 1..Len(code) : code[k] \in UpperLetters

\* /[0-9]/.test(code)
hasNumbers(code) == \E k \in 1..Len(code) : code[k] \in DigitChars

\* The test that lets a sampled code through; a code that fails it is
\* resampled by the recursive call.
Accepted(code) == hasLetters(code) /\ hasNumbers(code)

\* generateAlphanumericCode(): the codes the call can return.
generateAlphanumericCode ==
  { CodeOfDraws(d) : d \in { e \in RandomDraws : Accepted(CodeOfDraws(e)) } }

\* Date.now().toString().slice(-4): the last four decimal digits of the
\* millisecond clock.  Minutes are multiples of 60000 ms, so the digits are
\* those of the offset inside the minute, which the minute clock leaves open.
SubMinuteMs == {0, 4321}

digitChar(n) == chars[27 + n]

slice4(ms) ==
  << digitChar((ms \div 1000) % 10), digitChar((ms \div 100) % 10),
     digitChar((ms \div 10) % 10), digitChar(ms % 10) >>

\* generateAlphanumericCode() + '_' + Date.now().toString().slice(-4)
SuffixedCodes ==
  { g \o <<"_">> \o slice4(ms) : g \in generateAlphanumericCode, ms \in SubMinuteMs }

\* ------------------------------------------------------------------ inputs
\* req.body.phoneNumber: the spec's example, another subscriber number, and
\* malformed ones (8 digits, 10 digits, a non-digit, empty or missing).
Str9a == << "7","2","3","2","7","8","5","2","6" >>
Str9b == << "7","1","2","3","4","5","6","7","8" >>
PhoneInputs ==
  { Str9a, Str9b,
    << "7","2","3","2","7","8","5","2" >>,
    << "7","2","3","2","7","8","5","2","6","0" >>,
    << "7","2","3","2","7","8","5","2","x" >>,
    << >> }

\* update.qr payloads, sock.user.id values, lastDisconnect status codes
QRPayloads == {"2@qr-ref"}
Accounts == {"254700000001:1@s.whatsapp.net", "254700000002:7@s.whatsapp.net"}
CloseReasons == {"loggedOut", "connectionClosed", "connectionLost", "other"}

\* crypto.randomBytes(3).toString('hex').toUpperCase()
RandomHex == {"A1B2C3"}

BotStatuses ==
  {"disconnected", "connecting", "qr_ready", "online", "error", "reconnecting"}

\* ------------------------------------------------------------------- state
VARIABLES
  variant,            \* which server file runs
  started,            \* the top-level script has run (initWhatsApp(); app.listen)
  botStatus,          \* let botStatus
  currentQR,          \* let currentQR
  pairingCodes,       \* let pairingCodes = new Map(): code -> record
  lastGeneratedCode,  \* let lastGeneratedCode (server.js only)
  authFiles,          \* auth_info holds credential .json files
  initRunning,        \* initWhatsApp calls suspended at an await
  initTimers,         \* outstanding setTimeout(initWhatsApp, delay): delays in ms
  liveSockets,        \* sockets with handlers registered and not yet closed
  qrJobs,             \* connection.update handlers awaiting QRCode.toDataURL(qr)
  getqrJobs,          \* POST /getqr handlers awaiting QRCode.toDataURL(currentQR)
  expiryTimers,       \* outstanding expiry setTimeout closures
  now,                \* the clock, in minutes
  nextSerial,         \* number of records created so far (object identity)
  everLinked,         \* history: serials of the records connection-open linked
  lastOp,             \* the handler that ran last, its input and its response
  sessionBudget,      \* generateNewPairingCode calls the run is followed for
  genPhase,           \* generateAlphanumericCode: idle, in its loop, returned
  sample,             \* generateAlphanumericCode: `code` as built so far
  pairingDocs,        \* pairing-server.js: the PairingCode collection
  botSessionDocs,     \* pairing-server.js: the BotSession collection
  codeJobs,           \* pairing-server.js: /api/generate-code handlers at an await
  linkJobs,           \* pairing-server.js: /api/pairing-linked handlers at an await
  verifyJobs,         \* pairing-server.js: verifyPairingCodeInBot calls, returned ones kept
  nextJob             \* pairing-server.js: requests accepted so far

vars ==
  << variant, started, botStatus, currentQR, pairingCodes,
     lastGeneratedCode, authFiles, initRunning, initTimers, liveSockets,
     qrJobs, getqrJobs, expiryTimers, now, nextSerial, everLinked, lastOp,
     sessionBudget, genPhase, sample, pairingDocs, botSessionDocs, codeJobs,
     linkJobs, verifyJobs, nextJob >>

connVars == << botStatus, currentQR, authFiles, initRunning,
               initTimers, liveSockets, qrJobs >>

storeVars == << pairingCodes, lastGeneratedCode, expiryTimers, nextSerial >>

\* One call of generateAlphanumericCode followed draw by draw.
genVars == << genPhase, sample >>

\* The database and the handlers of pairing-server.js.
dbVars ==
  << pairingDocs, botSessionDocs, codeJobs, linkJobs, verifyJobs, nextJob >>

\* What the handlers of server.js and part_000 never touch.
restVars == << sessionBudget, genVars, dbVars >>

\* The state of server.js and part_000.
memVars ==
  << variant, started, connVars, getqrJobs, storeVars, everLinked >>

NoSession == << >>

\* What a handler answered (res.json) or, for an event, nothing.
NoResponse ==
  [ success |-> FALSE, kind |-> "none", code |-> NullCode,
    sessionId |-> NoSession, expiresAt |-> NullTime, phoneNumber |-> << >>,
    qrImage |-> Null ]

Rejected(kind) == [NoResponse EXCEPT !.kind = kind]

\* op: the handler; arg: the event's payload; response: what it answered
Ran(op, arg, response) == [ op |-> op, arg |-> arg, response |-> response ]

\* A step of the runtime that answers nobody and carries no payload.
Internal == Ran("internal", Null, NoResponse)

InitMem ==
  /\ variant \in Variants
  /\ started = FALSE
  /\ botStatus = "disconnected"
  /\ currentQR = Null
  /\ pairingCodes = << >>
  /\ lastGeneratedCode = NullCode
  /\ authFiles \in BOOLEAN
  /\ initRunning = 0
  /\ initTimers = << >>
  /\ liveSockets = 0
  /\ qrJobs = << >>
  /\ getqrJobs = << >>
  /\ expiryTimers = {}
  /\ now = 0
  /\ nextSerial = 0
  /\ everLinked = {}
  /\ lastOp = Ran("load", Null, NoResponse)

InitRest ==
  /\ genPhase = "idle"
  /\ sample = << >>
  /\ pairingDocs = {}
  /\ botSessionDocs = {}
  /\ codeJobs = {}
  /\ linkJobs = << >>
  /\ verifyJobs = {}
  /\ nextJob = 0

Init == InitMem /\ InitRest /\ sessionBudget = MaxSessions

\* ------------------------------------------------------- session store
has(code) == code \in DOMAIN pairingCodes

\* `${SESSION_PREFIX}_${Date.now()}_${hex}`: the parts that vary
generateSessionId == { << now, h >> : h \in RandomHex }

\* NewRecord with the TTL left out of expiresAt.
NewRecordNoTTL(code, phoneNumber, sessionId) ==
  [ code |-> code, phoneNumber |-> phoneNumber, sessionId |-> sessionId,
    status |-> "pending", createdAt |-> now, expiresAt |-> now,
    linkedAt |-> NullTime, linkedTo |-> Null, serial |-> nextSerial + 1 ]

\* The object literal generateNewPairingCode stores; `serial` is the
\* identity of the new object.
NewRecord(code, phoneNumber, sessionId) ==
  [ code |-> code, phoneNumber |-> phoneNumber, sessionId |-> sessionId,
    status |-> "pending", createdAt |-> now,
    expiresAt |-> now + CODE_EXPIRY_MINUTES,
    linkedAt |-> NullTime, linkedTo |-> Null, serial |-> nextSerial + 1 ]

\* part_000: do { code = generateAlphanumericCode(); attempts++ }
\*           while (pairingCodes.has(code) && attempts < 10)
\* entered with `attempts` = n; the pairs << code, attempts >> it can end with.
RECURSIVE CollisionLoop(_)
CollisionLoop(n) ==
  LET attempts == n + 1
      again == { g \in generateAlphanumericCode : has(g) /\ attempts < MaxAttempts }
  IN { << g, attempts >> : g \in generateAlphanumericCode \ again }
       \cup (IF again # {} THEN CollisionLoop(attempts) ELSE {})

\* if (attempts >= 10) code = generateAlphanumericCode() + '_' + suffix
FallbackTaken(attempts) == attempts >= MaxAttempts

\* The codes generateNewPairingCode can settle on in the current state.
CodeChoices ==
  IF variant = "server"
    THEN generateAlphanumericCode
    ELSE LET ends == CollisionLoop(0)
         IN { e[1] : e \in { x \in ends : ~FallbackTaken(x[2]) } }
              \cup (IF \E x \in ends : FallbackTaken(x[2])
                      THEN SuffixedCodes ELSE {})

\* NewTimer with a delay of 0.
NewTimerAtOnce(code) ==
  [ code |-> code, due |-> now, serial |-> nextSerial + 1 ]

\* The timer's callback reads `code` from its closure; `serial` is the
\* identity of the record the same call stored.
NewTimer(code) ==
  [ code |-> code, due |-> now + CODE_EXPIRY_MINUTES, serial |-> nextSerial + 1 ]

\* generateNewPairingCode(phoneNumber) settling on `code` and `sessionId`:
\* pairingCodes.set, lastGeneratedCode, setTimeout.
generateNewPairingCode(phoneNumber, code, sessionId) ==
  /\ nextSerial < sessionBudget
  /\ code \in CodeChoices
  /\ sessionId \in generateSessionId
  /\ pairingCodes' =
       [ c \in DOMAIN pairingCodes \cup {code} |->
           IF c = code THEN NewRecord(code, phoneNumber, sessionId)
                       ELSE pairingCodes[c] ]
  /\ lastGeneratedCode' = IF variant = "server" THEN code ELSE lastGeneratedCode
  /\ expiryTimers' = expiryTimers \cup { NewTimer(code) }
  /\ nextSerial' = nextSerial + 1

\* pairingCodes.delete(code)
deleteCode(code) == [ c \in DOMAIN pairingCodes \ {code} |-> pairingCodes[c] ]

\* The expiry setTimeout callback of timer t:
\*   if (pairingCodes.has(code) && pairingCodes.get(code).status === 'pending')
\*     pairingCodes.delete(code)
ExpiryRemoves(code) == has(code) /\ pairingCodes[code].status = "pending"

ExpiryFire(t) ==
  /\ t \in expiryTimers
  /\ t.due <= now
  /\ expiryTimers' = expiryTimers \ {t}
  /\ pairingCodes' = IF ExpiryRemoves(t.code) THEN deleteCode(t.code)
                                             ELSE pairingCodes
  /\ lastOp' = Ran("expire", Null, NoResponse)
  /\ UNCHANGED << restVars, variant, started, connVars, getqrJobs, lastGeneratedCode,
                  now, nextSerial, everLinked >>

\* ------------------------------------------------------------ HTTP API
\* validPhone with the pattern's anchors dropped: /[0-9]{9}/
validPhoneUnanchored(phoneNumber) ==
  \E k \in 1..Len(phoneNumber) :
    /\ k + 8 <= Len(phoneNumber)
    /\ \A j \in k..(k + 8) : phoneNumber[j] \in DigitChars

\* !phoneNumber || !/^[0-9]{9}$/.test(phoneNumber)
validPhone(phoneNumber) ==
  /\ Len(phoneNumber) = 9
  /\ \A k \in 1..Len(phoneNumber) : phoneNumber[k] \in DigitChars

\* notReady that turns away the disconnected state only.
notReadyDisconnected == botStatus = "disconnected"

\* botStatus !== 'qr_ready' && botStatus !== 'online'
notReady == botStatus # "qr_ready" /\ botStatus # "online"

\* '+254' + phoneNumber
fullNumber(phoneNumber) == << "+", "2", "5", "4" >> \o phoneNumber

Success(code, sessionId, phoneNumber) ==
  [ success |-> TRUE, kind |-> "ok", code |-> code, sessionId |-> sessionId,
    expiresAt |-> now + CODE_EXPIRY_MINUTES, phoneNumber |-> phoneNumber,
    qrImage |-> Null ]

\* app.post('/generate-code')
PostGenerateCode(phoneNumber) ==
  /\ started
  /\ IF ~validPhone(phoneNumber)
       THEN /\ lastOp' = Ran("generate-code", Null, Rejected("invalid_phone"))
            /\ UNCHANGED storeVars
       ELSE IF notReady
         THEN /\ lastOp' = Ran("generate-code", Null, Rejected("not_ready"))
              /\ UNCHANGED storeVars
         ELSE \E code \in CodeChoices, sessionId \in generateSessionId :
                /\ generateNewPairingCode(fullNumber(phoneNumber), code, sessionId)
                /\ lastOp' = Ran("generate-code", Null, Success(code, sessionId, fullNumber(phoneNumber)))
  /\ UNCHANGED << restVars, variant, started, connVars, getqrJobs, now, everLinked >>

\* --------------------------------------------------- connection lifecycle
\* initWhatsAppBegin that leaves botStatus as it is.
initWhatsAppBeginQuiet ==
  /\ UNCHANGED botStatus
  /\ authFiles' = FALSE
  /\ initRunning' = initRunning + 1

\* initWhatsApp() up to its first await: botStatus = 'connecting' and the
\* old credential files removed (server.js unlinks the .json files,
\* part_000 calls cleanAuthFolder()).
initWhatsAppBegin ==
  /\ botStatus' = "connecting"
  /\ authFiles' = FALSE
  /\ initRunning' = initRunning + 1

\* The top-level script: initWhatsApp(); app.listen(...)
Start ==
  /\ ~started
  /\ started' = TRUE
  /\ initWhatsAppBegin
  /\ lastOp' = Internal
  /\ UNCHANGED << restVars, variant, currentQR, initTimers, liveSockets,
                  qrJobs, getqrJobs, storeVars, now, everLinked >>

RemoveAt(seq, i) == SubSeq(seq, 1, i - 1) \o SubSeq(seq, i + 1, Len(seq))

\* A setTimeout(initWhatsApp, delay) fires.
InitTimerFire(i) ==
  /\ i \in 1..Len(initTimers)
  /\ initTimers' = RemoveAt(initTimers, i)
  /\ initWhatsAppBegin
  /\ lastOp' = Internal
  /\ UNCHANGED << restVars, variant, started, currentQR, liveSockets,
                  qrJobs, getqrJobs, storeVars, now, everLinked >>

\* initWhatsApp resumes and reaches `return sock`: handlers registered.
InitSucceed ==
  /\ initRunning > 0
  /\ initRunning' = initRunning - 1
  /\ liveSockets' = liveSockets + 1
  /\ lastOp' = Internal
  /\ UNCHANGED << restVars, variant, started, botStatus, currentQR,
                  authFiles, initTimers, qrJobs, getqrJobs, storeVars, now, everLinked >>

\* setTimeout(initWhatsApp, 10000) in server.js, 15000 in part_000
InitRetryDelay == IF variant = "server" THEN 10000 ELSE 15000

\* InitFail without the setTimeout.
InitFailGivesUp ==
  /\ initRunning > 0
  /\ initRunning' = initRunning - 1
  /\ botStatus' = "error"
  /\ lastOp' = Internal
  /\ UNCHANGED << restVars, variant, started, currentQR, authFiles, initTimers,
                  liveSockets, qrJobs, getqrJobs, storeVars, now, everLinked >>

\* initWhatsApp's catch: an awaited call or makeWASocket threw.
InitFail ==
  /\ initRunning > 0
  /\ initRunning' = initRunning - 1
  /\ botStatus' = "error"
  /\ initTimers' = Append(initTimers, InitRetryDelay)
  /\ lastOp' = Internal
  /\ UNCHANGED << restVars, variant, started, currentQR, authFiles,
                  liveSockets, qrJobs, getqrJobs, storeVars, now, everLinked >>

\* sock.ev.on('creds.update', saveCreds)
CredsUpdate ==
  /\ liveSockets > 0
  /\ authFiles' = TRUE
  /\ lastOp' = Internal
  /\ UNCHANGED << restVars, variant, started, botStatus, currentQR,
                  initRunning, initTimers, liveSockets, qrJobs, getqrJobs,
                  storeVars, now, everLinked >>

\* connection.update with qr, up to `await QRCode.toDataURL(qr)`
OnQR(qr) ==
  /\ liveSockets > 0
  /\ Len(qrJobs) < MaxInflight
  /\ currentQR' = qr
  /\ botStatus' = "qr_ready"
  /\ qrJobs' = Append(qrJobs, qr)
  /\ lastOp' = Ran("qr", Null, NoResponse)
  /\ UNCHANGED << restVars, variant, started, authFiles, initRunning,
                  initTimers, liveSockets, getqrJobs, storeVars, now, everLinked >>

\* QRCode.toDataURL(qr)
toDataURL(qr) == "data:image/png;base64," \o qr

NoPhone == << >>

\* server.js generates a demo pairing code once the QR image is ready.
QRDemoCode == variant = "server"

\* The qr branch resumes after the await.
OnQREncoded(i) ==
  /\ i \in 1..Len(qrJobs)
  /\ qrJobs' = RemoveAt(qrJobs, i)
  /\ IF QRDemoCode
       THEN \E code \in CodeChoices, sessionId \in generateSessionId :
              generateNewPairingCode(NoPhone, code, sessionId)
       ELSE UNCHANGED storeVars
  /\ lastOp' = Internal
  /\ UNCHANGED << restVars, variant, started, botStatus, currentQR, authFiles,
                  initRunning, initTimers, liveSockets, getqrJobs, now, everLinked >>

\* QRCode.toDataURL rejects: catch (error) { console.error(...) }
OnQREncodeError(i) ==
  /\ i \in 1..Len(qrJobs)
  /\ qrJobs' = RemoveAt(qrJobs, i)
  /\ lastOp' = Internal
  /\ UNCHANGED << restVars, variant, started, botStatus, currentQR,
                  authFiles, initRunning, initTimers, liveSockets, getqrJobs,
                  storeVars, now, everLinked >>

\* connection === 'open': for each entry with status 'pending' set
\* status = 'linked', linkedAt = new Date() (part_000 also linkedTo =
\* sock.user?.id).
markLinked(data, at, accountId) ==
  [ data EXCEPT !.status = "linked",
                !.linkedAt = at,
                !.linkedTo = IF variant = "part" THEN accountId ELSE @ ]

\* markPendingLinked without the test of the status.
markEveryLinked(store, at, accountId) ==
  [ c \in DOMAIN store |-> markLinked(store[c], at, accountId) ]

markPendingLinked(store, at, accountId) ==
  [ c \in DOMAIN store |->
      IF store[c].status = "pending" THEN markLinked(store[c], at, accountId)
                                     ELSE store[c] ]

pendingSerials ==
  { pairingCodes[c].serial :
      c \in { k \in DOMAIN pairingCodes : pairingCodes[k].status = "pending" } }

OnOpen(accountId) ==
  /\ liveSockets > 0
  /\ botStatus' = "online"
  /\ pairingCodes' = markPendingLinked(pairingCodes, now, accountId)
  /\ everLinked' = everLinked \cup pendingSerials
  /\ lastOp' = Ran("open", Null, NoResponse)
  /\ UNCHANGED << restVars, variant, started, currentQR, authFiles,
                  initRunning, initTimers, liveSockets, qrJobs, getqrJobs,
                  lastGeneratedCode, expiryTimers, nextSerial, now >>

\* statusCode === DisconnectReason.loggedOut (server.js), === 401 (part_000)
isLoggedOut(reason) == reason = "loggedOut"

\* ReconnectDelays with the logout branch falling through to the reconnect
\* of the other branch.
ReconnectDelaysFallThrough(reason) ==
  IF variant = "server"
    THEN << 5000 >>
    ELSE IF isLoggedOut(reason) THEN << 3000, 10000 >> ELSE << 10000 >>

\* The reconnect the close handler schedules: its delays in ms, none when
\* server.js sees a logout.
ReconnectDelays(reason) ==
  IF variant = "server"
    THEN IF isLoggedOut(reason) THEN << >> ELSE << 5000 >>
    ELSE IF isLoggedOut(reason) THEN << 3000 >> ELSE << 10000 >>

\* StatusAfterClose naming a state of its own.
StatusAfterCloseClosed(reason) ==
  IF variant = "part" /\ ~isLoggedOut(reason) THEN "closed" ELSE botStatus

\* botStatus after the close handler: only part_000's non-401 branch
\* assigns it.
StatusAfterClose(reason) ==
  IF variant = "part" /\ ~isLoggedOut(reason) THEN "reconnecting" ELSE botStatus

\* connection === 'close'
OnClose(reason) ==
  /\ liveSockets > 0
  /\ liveSockets' = liveSockets - 1
  /\ authFiles' = IF isLoggedOut(reason) THEN FALSE ELSE authFiles
  /\ botStatus' = StatusAfterClose(reason)
  /\ initTimers' = initTimers \o ReconnectDelays(reason)
  /\ lastOp' = Ran("close", reason, NoResponse)
  /\ UNCHANGED << restVars, variant, started, currentQR, initRunning,
                  qrJobs, getqrJobs, storeVars, now, everLinked >>

\* ------------------------------------------------------- HTTP API (rest)
QRSuccess(code, sessionId, phoneNumber, image) ==
  [ success |-> TRUE, kind |-> "ok", code |-> code, sessionId |-> sessionId,
    expiresAt |-> NullTime, phoneNumber |-> phoneNumber, qrImage |-> image ]

\* app.post('/getqr') up to `await QRCode.toDataURL(currentQR)`, or to its
\* response when it does not await.
PostGetQR(phoneNumber) ==
  /\ started
  /\ IF ~validPhone(phoneNumber)
       THEN /\ lastOp' = Ran("getqr", Null, Rejected("invalid_phone"))
            /\ UNCHANGED << storeVars, getqrJobs >>
       ELSE IF botStatus = "qr_ready" /\ currentQR # Null
         THEN /\ Len(getqrJobs) < MaxInflight
              /\ getqrJobs' = Append(getqrJobs,
                                [ phoneNumber |-> phoneNumber, qr |-> currentQR ])
              /\ lastOp' = Internal
              /\ UNCHANGED storeVars
         ELSE IF botStatus = "online"
           THEN /\ \E code \in CodeChoices, sessionId \in generateSessionId :
                     /\ generateNewPairingCode(fullNumber(phoneNumber), code,
                                               sessionId)
                     /\ lastOp' = Ran("getqr", Null, QRSuccess(code, sessionId,
                                                fullNumber(phoneNumber), Null))
                /\ UNCHANGED getqrJobs
           ELSE /\ lastOp' = Ran("getqr", Null, Rejected("not_ready"))
                /\ UNCHANGED << storeVars, getqrJobs >>
  /\ UNCHANGED << restVars, variant, started, connVars, now, everLinked >>

\* /getqr resumes after the await: generateNewPairingCode and the response.
GetQREncoded(i) ==
  /\ i \in 1..Len(getqrJobs)
  /\ getqrJobs' = RemoveAt(getqrJobs, i)
  /\ LET job == getqrJobs[i]
     IN \E code \in CodeChoices, sessionId \in generateSessionId :
          /\ generateNewPairingCode(fullNumber(job.phoneNumber), code, sessionId)
          /\ lastOp' = Ran("getqr", Null, QRSuccess(code, sessionId,
                                     fullNumber(job.phoneNumber),
                                     toDataURL(job.qr)))
  /\ UNCHANGED << restVars, variant, started, connVars, now, everLinked >>

\* catch (qrError): 'Error generating QR image'
GetQREncodeError(i) ==
  /\ i \in 1..Len(getqrJobs)
  /\ getqrJobs' = RemoveAt(getqrJobs, i)
  /\ lastOp' = Ran("getqr", Null, Rejected("qr_error"))
  /\ UNCHANGED << restVars, variant, started, connVars, storeVars, now, everLinked >>

\* StatusBody counting the pending records only.
StatusBodyPending ==
  [ bot |-> botStatus, hasQR |-> (botStatus = "qr_ready"),
    pairingCodes |->
      Cardinality({ c \in DOMAIN pairingCodes : pairingCodes[c].status = "pending" }),
    lastCode |-> IF variant = "server" THEN lastGeneratedCode ELSE NullCode ]

\* app.get('/status'): lastCode is sent by server.js only
StatusBody ==
  [ bot |-> botStatus, hasQR |-> (botStatus = "qr_ready"),
    pairingCodes |-> Cardinality(DOMAIN pairingCodes),
    lastCode |-> IF variant = "server" THEN lastGeneratedCode ELSE NullCode ]

GetStatus ==
  /\ started
  /\ StatusBody.bot = botStatus
  /\ UNCHANGED vars

\* app.get('/health')
HealthBody ==
  [ status |-> "running", bot |-> botStatus, qrReady |-> (botStatus = "qr_ready"),
    codes |-> Cardinality(DOMAIN pairingCodes),
    lastGeneratedCode |-> IF variant = "server" THEN lastGeneratedCode
                                                ELSE NullCode ]

GetHealth ==
  /\ started
  /\ HealthBody.bot = botStatus
  /\ UNCHANGED vars

\* --------------------------------------------------------- sweep, clock
\* Swept with the test of the status turned around.
SweptLinked(data) == now > data.expiresAt /\ data.status = "linked"

\* part_000's setInterval(..., 60000) callback:
\*   if (now > expiresAt && data.status === 'pending') pairingCodes.delete(code)
Swept(data) == now > data.expiresAt /\ data.status = "pending"

Sweep ==
  /\ variant = "part"
  /\ started
  /\ pairingCodes' =
       [ c \in { k \in DOMAIN pairingCodes : ~Swept(pairingCodes[k]) } |->
           pairingCodes[c] ]
  /\ lastOp' = Ran("sweep", Null, NoResponse)
  /\ UNCHANGED << restVars, variant, started, connVars, getqrJobs, lastGeneratedCode,
                  expiryTimers, nextSerial, now, everLinked >>

\* Time passes.
Tick ==
  /\ now + TickMinutes <= MaxTime
  /\ now' = now + TickMinutes
  /\ UNCHANGED << restVars, variant, started, connVars, getqrJobs, storeVars, everLinked,
                  lastOp >>

\* The connection lifecycle: initWhatsApp, its timers, and the socket's events.
ConnNext ==
  \/ Start
  \/ \E i \in 1..Len(initTimers) : InitTimerFire(i)
  \/ InitSucceed
  \/ InitFail
  \/ CredsUpdate
  \/ \E qr \in QRPayloads : OnQR(qr)
  \/ \E i \in 1..Len(qrJobs) : OnQREncoded(i)
  \/ \E i \in 1..Len(qrJobs) : OnQREncodeError(i)
  \/ \E accountId \in Accounts : OnOpen(accountId)
  \/ \E reason \in CloseReasons : OnClose(reason)

\* The HTTP handlers.
ApiNext ==
  \/ \E phoneNumber \in PhoneInputs : PostGenerateCode(phoneNumber)
  \/ \E phoneNumber \in PhoneInputs : PostGetQR(phoneNumber)
  \/ \E i \in 1..Len(getqrJobs) : GetQREncoded(i)
  \/ \E i \in 1..Len(getqrJobs) : GetQREncodeError(i)
  \/ GetStatus
  \/ GetHealth

\* The clock and what it drives.
TimeNext ==
  \/ \E t \in expiryTimers : ExpiryFire(t)
  \/ Sweep
  \/ Tick

\* The server with the clock standing still: every connection event and
\* every HTTP handler, no expiry.
SpecConn == Init /\ [][ConnNext \/ ApiNext]_vars

\* The session store over time, on a connection that comes up and stays up:
\* codes are requested for one well-formed and one malformed number.
StorePhones == { Str9a, << "7","2","3","2","7","8","5","2","x" >> }

StoreNext ==
  \/ Start
  \/ InitSucceed
  \/ \E qr \in QRPayloads : OnQR(qr)
  \/ \E i \in 1..Len(qrJobs) : OnQREncoded(i)
  \/ \E accountId \in Accounts : OnOpen(accountId)
  \/ \E phoneNumber \in StorePhones : PostGenerateCode(phoneNumber)
  \/ GetStatus
  \/ TimeNext

SpecStore == Init /\ [][StoreNext]_vars

\* ------------------------------------------- pairing-server.js (MongoDB)
\* !phoneNumber || !phoneNumber.match(/^[0-9]{9,12}$/)
validPhoneNumber(phoneNumber) ==
  /\ Len(phoneNumber) >= 9
  /\ Len(phoneNumber) <= 12
  /\ \A k \in 1..Len(phoneNumber) : phoneNumber[k] \in DigitChars

\* phoneNumber.replace(/\D/g, '')
stripNonDigits(phoneNumber) ==
  LET isDigit(ch) == ch \in DigitChars IN SelectSeq(phoneNumber, isDigit)

\* const { phoneNumber, countryCode = '+254' } = req.body
countryCode == << "+", "2", "5", "4" >>

\* countryCode + phoneNumber.replace(/\D/g, '')
fullNumberOf(phoneNumber) == countryCode \o stripNonDigits(phoneNumber)

\* n.toString() for a six-digit n
toString6(n) ==
  << digitChar((n \div 100000) % 10), digitChar((n \div 10000) % 10),
     digitChar((n \div 1000) % 10), digitChar((n \div 100) % 10),
     digitChar((n \div 10) % 10), digitChar(n % 10) >>

\* Math.floor(100000 + Math.random() * 900000).toString(): the values it
\* takes in a run.
SampledPairingCodes ==
  { toString6(100000 + r) : r \in 0..(NumRandomIndices - 1) }

\* crypto.randomBytes(3).toString('hex')
SessionHex == {"a1b2c3", "d4e5f6"}

\* `IAN_TECH_${Date.now()}_${hex}`: the parts that vary
botSessionIds == { << now, h >> : h \in SessionHex }

\* req.params.code of /api/pairing-linked: the codes issued and one that
\* never is.
LinkCodes == SampledPairingCodes \cup { << "9", "9", "9", "9", "9", "9" >> }

\* A handler of /api/generate-code suspended at an await: pc names the
\* call awaited.
NewJob(phoneNumber) ==
  [ id |-> nextJob + 1, pc |-> "findExisting",
    fullNumber |-> fullNumberOf(phoneNumber), pairingCode |-> NullCode,
    sessionId |-> NoSession, createdAt |-> NullTime, expiresAt |-> NullTime ]

\* app.post('/api/generate-code') up to `await PairingCode.findOne(...)`
ApiGenerateCode(phoneNumber) ==
  /\ IF ~validPhoneNumber(phoneNumber)
       THEN /\ lastOp' = Ran("api-generate-code", Null, Rejected("invalid_phone"))
            /\ UNCHANGED << codeJobs, nextJob >>
       ELSE /\ nextJob < MaxRequests
            /\ codeJobs' = codeJobs \cup { NewJob(phoneNumber) }
            /\ nextJob' = nextJob + 1
            /\ lastOp' = Internal
  /\ UNCHANGED << memVars, sessionBudget, genVars, verifyJobs, pairingDocs,
                  botSessionDocs, linkJobs, now >>

\* findOne({ fullNumber, status: 'pending', expiresAt: { $gt: new Date() } })
existingCode(job) ==
  { d \in pairingDocs : /\ d.fullNumber = job.fullNumber
                        /\ d.status = "pending"
                        /\ d.expiresAt > now }

\* The handler resumes with existingCode: it answers with the code found,
\* or samples a code and awaits the uniqueness query.
FindExistingDone(job) ==
  /\ job \in codeJobs
  /\ job.pc = "findExisting"
  /\ IF existingCode(job) # {}
       THEN /\ \E d \in existingCode(job) :
                 lastOp' = Ran("api-generate-code", Null,
                               [ success |-> TRUE, kind |-> "existing",
                                 code |-> d.pairingCode, sessionId |-> NoSession,
                                 expiresAt |-> d.expiresAt,
                                 phoneNumber |-> d.fullNumber, qrImage |-> Null ])
            /\ codeJobs' = codeJobs \ {job}
       ELSE /\ \E code \in SampledPairingCodes :
                 codeJobs' = (codeJobs \ {job}) \cup
                   { [job EXCEPT !.pc = "findUnique", !.pairingCode = code] }
            /\ lastOp' = Internal
  /\ UNCHANGED << memVars, sessionBudget, genVars, verifyJobs, pairingDocs,
                  botSessionDocs, linkJobs, nextJob, now >>

\* findOne({ pairingCode, status: 'pending' })
existing(pairingCode) ==
  { d \in pairingDocs : d.pairingCode = pairingCode /\ d.status = "pending" }

\* The handler resumes inside while (!isUnique): it samples again, or leaves
\* the loop, builds sessionId and the document (its expiresAt and createdAt
\* defaults are taken here) and awaits pairingRecord.save().
FindUniqueDone(job) ==
  /\ job \in codeJobs
  /\ job.pc = "findUnique"
  /\ IF existing(job.pairingCode) # {}
       THEN \E code \in SampledPairingCodes :
              codeJobs' = (codeJobs \ {job}) \cup
                { [job EXCEPT !.pairingCode = code] }
       ELSE \E sessionId \in botSessionIds :
              codeJobs' = (codeJobs \ {job}) \cup
                { [job EXCEPT !.pc = "save", !.sessionId = sessionId,
                              !.createdAt = now,
                              !.expiresAt = now + CODE_EXPIRY_MINUTES] }
  /\ lastOp' = Internal
  /\ UNCHANGED << memVars, sessionBudget, genVars, verifyJobs, pairingDocs,
                  botSessionDocs, linkJobs, nextJob, now >>

\* new PairingCode({...}): status and linkedAt take the schema's defaults.
\* Left out: phoneNumber, countryCode, ipAddress, userAgent and deviceInfo,
\* which no handler reads back.
PairingRecord(job) ==
  [ fullNumber |-> job.fullNumber,
    pairingCode |-> job.pairingCode, sessionId |-> job.sessionId,
    status |-> "pending", createdAt |-> job.createdAt,
    expiresAt |-> job.expiresAt, linkedAt |-> NullTime ]

\* DuplicateKey with the unique index of fullNumber left out.
DuplicateKeyCodeOnly(doc) ==
  \E d \in pairingDocs : d.pairingCode = doc.pairingCode

\* The unique indexes of pairingCodeSchema: fullNumber and pairingCode
DuplicateKey(doc) ==
  \E d \in pairingDocs :
    d.fullNumber = doc.fullNumber \/ d.pairingCode = doc.pairingCode

\* catch (error): res.status(500).json({ success: false, error: ... })
InternalError == Rejected("internal_error")

\* await pairingRecord.save() settles: the insert, or the duplicate-key
\* error that lands in the handler's catch.
SaveDone(job) ==
  /\ job \in codeJobs
  /\ job.pc = "save"
  /\ IF DuplicateKey(PairingRecord(job))
       THEN /\ lastOp' = Ran("api-generate-code", Null, InternalError)
            /\ codeJobs' = codeJobs \ {job}
            /\ UNCHANGED pairingDocs
       ELSE /\ pairingDocs' = pairingDocs \cup { PairingRecord(job) }
            /\ codeJobs' = (codeJobs \ {job}) \cup { [job EXCEPT !.pc = "saveBot"] }
            /\ lastOp' = Internal
  /\ UNCHANGED << memVars, sessionBudget, genVars, verifyJobs, botSessionDocs,
                  linkJobs, nextJob, now >>

\* new BotSession({ sessionId, phoneNumber: fullNumber, status: 'pending',
\*                  createdAt: new Date() }); createdAt, never read back, is
\* left out.
BotSessionRecord(job) ==
  [ sessionId |-> job.sessionId, phoneNumber |-> job.fullNumber,
    status |-> "pending", lastActive |-> NullTime ]

\* await botSession.save() settles (sessionId is unique in botSessionSchema)
\* and the handler answers.
SaveBotDone(job) ==
  /\ job \in codeJobs
  /\ job.pc = "saveBot"
  /\ codeJobs' = codeJobs \ {job}
  /\ IF \E b \in botSessionDocs : b.sessionId = job.sessionId
       THEN /\ lastOp' = Ran("api-generate-code", Null, InternalError)
            /\ UNCHANGED botSessionDocs
       ELSE /\ botSessionDocs' = botSessionDocs \cup { BotSessionRecord(job) }
            /\ lastOp' = Ran("api-generate-code", Null,
                             [ success |-> TRUE, kind |-> "ok",
                               code |-> job.pairingCode,
                               sessionId |-> job.sessionId,
                               expiresAt |-> job.expiresAt,
                               phoneNumber |-> job.fullNumber,
                               qrImage |-> Null ])
  /\ UNCHANGED << memVars, sessionBudget, genVars, verifyJobs, pairingDocs,
                  linkJobs, nextJob, now >>

\* markActive that leaves linkedAt as it is.
markActiveUnstamped(d) == [ d EXCEPT !.status = "active" ]

\* The update of /api/pairing-linked: { status: 'active', linkedAt: new Date() }
markActive(d) == [ d EXCEPT !.status = "active", !.linkedAt = now ]

\* The documents the filter { pairingCode: code } matches
byPairingCode(code) == { d \in pairingDocs : d.pairingCode = code }

\* app.post('/api/pairing-linked/:code'): PairingCode.findOneAndUpdate, then
\* the 404 answer or the await of BotSession.findOneAndUpdate.
ApiPairingLinked(code) ==
  /\ IF byPairingCode(code) = {}
       THEN /\ lastOp' = Ran("api-pairing-linked", Null, Rejected("not_found"))
            /\ UNCHANGED << pairingDocs, linkJobs >>
       ELSE /\ Len(linkJobs) < MaxInflight
            /\ \E d \in byPairingCode(code) :
                 /\ pairingDocs' = (pairingDocs \ {d}) \cup { markActive(d) }
                 /\ linkJobs' = Append(linkJobs, d.sessionId)
            /\ lastOp' = Internal
  /\ UNCHANGED << memVars, sessionBudget, genVars, verifyJobs, botSessionDocs,
                  codeJobs, nextJob, now >>

\* BotSession.findOneAndUpdate({ sessionId }, { status: 'active',
\*                                              lastActive: new Date() })
\* settles and the handler answers success.
PairingLinkedDone(i) ==
  /\ i \in 1..Len(linkJobs)
  /\ linkJobs' = RemoveAt(linkJobs, i)
  /\ botSessionDocs' =
       { IF b.sessionId = linkJobs[i]
           THEN [ b EXCEPT !.status = "active", !.lastActive = now ]
           ELSE b : b \in botSessionDocs }
  /\ lastOp' = Ran("api-pairing-linked", Null,
                   [ NoResponse EXCEPT !.success = TRUE, !.kind = "ok" ])
  /\ UNCHANGED << memVars, sessionBudget, genVars, verifyJobs, pairingDocs,
                  codeJobs, nextJob, now >>

\* expiresAt: index { expireAfterSeconds: 0 }: MongoDB's TTL monitor deletes
\* a document whose expiresAt has passed, whatever its status.
TTLDelete(d) ==
  /\ d \in pairingDocs
  /\ d.expiresAt <= now
  /\ pairingDocs' = pairingDocs \ {d}
  /\ lastOp' = Internal
  /\ UNCHANGED << memVars, sessionBudget, genVars, verifyJobs, botSessionDocs,
                  codeJobs, linkJobs, nextJob, now >>

\* req.body.phoneNumber of /api/generate-code: two subscriber numbers and
\* a malformed one.
ApiPhones == { Str9a, Str9b, << "7","2","3","2","7","8","5","2" >> }

\* pairing-server.js: its handlers, the TTL monitor and the clock.
MongoNext ==
  \/ \E phoneNumber \in ApiPhones : ApiGenerateCode(phoneNumber)
  \/ \E job \in codeJobs : FindExistingDone(job)
  \/ \E job \in codeJobs : FindUniqueDone(job)
  \/ \E job \in codeJobs : SaveDone(job)
  \/ \E job \in codeJobs : SaveBotDone(job)
  \/ \E code \in LinkCodes : ApiPairingLinked(code)
  \/ \E i \in 1..Len(linkJobs) : PairingLinkedDone(i)
  \/ \E d \in pairingDocs : TTLDelete(d)
  \/ Tick

\* pairing-server.js runs on its own: the in-memory server is not started.
InitMongo == Init /\ variant = "server" /\ authFiles = FALSE

SpecMongo == InitMongo /\ [][MongoNext]_vars

\* part_000 on a connection that comes up and stays up, followed for one
\* more create than the other runs: codes are requested for one number.
InitCollide ==
  /\ InitMem /\ InitRest
  /\ variant = "part"
  /\ authFiles = FALSE
  /\ sessionBudget = MaxSessions + 1

CollideNext ==
  \/ Start
  \/ InitSucceed
  \/ \E qr \in QRPayloads : OnQR(qr)
  \/ \E i \in 1..Len(qrJobs) : OnQREncoded(i)
  \/ PostGenerateCode(Str9a)
  \/ TimeNext

SpecCollide == InitCollide /\ [][CollideNext]_vars

\* ------------------------ generateAlphanumericCode, one draw at a time
\* A caller enters generateAlphanumericCode(): let code = ''
GenCall ==
  /\ genPhase \in {"idle", "returned"}
  /\ genPhase' = "loop"
  /\ sample' = << >>
  /\ UNCHANGED << memVars, sessionBudget, dbVars, now, lastOp >>

\* One turn of the for loop: code += chars.charAt(Math.floor(Math.random() * 36))
GenDraw(i) ==
  /\ genPhase = "loop"
  /\ Len(sample) < CODE_LENGTH
  /\ sample' = Append(sample, charAt(i))
  /\ UNCHANGED << memVars, sessionBudget, genPhase, dbVars, now, lastOp >>

\* if (!hasLetters || !hasNumbers) return generateAlphanumericCode():
\* the nested call starts over with code = ''
GenRecurse ==
  /\ genPhase = "loop"
  /\ Len(sample) = CODE_LENGTH
  /\ ~Accepted(sample)
  /\ sample' = << >>
  /\ UNCHANGED << memVars, sessionBudget, genPhase, dbVars, now, lastOp >>

\* return code
GenReturn ==
  /\ genPhase = "loop"
  /\ Len(sample) = CODE_LENGTH
  /\ Accepted(sample)
  /\ genPhase' = "returned"
  /\ UNCHANGED << memVars, sessionBudget, sample, dbVars, now, lastOp >>

GenNext ==
  \/ GenCall
  \/ \E i \in RandomIndices : GenDraw(i)
  \/ GenRecurse
  \/ GenReturn

\* The generator on its own; a call that has started keeps running.
SpecGen == Init /\ [][GenNext]_vars /\ WF_vars(GenNext)

\* part_000 on a connection that comes up and stays up; the setInterval
\* callback keeps being run.
InitPart == Init /\ variant = "part" /\ authFiles = FALSE

SweepNext ==
  \/ Start
  \/ InitSucceed
  \/ \E qr \in QRPayloads : OnQR(qr)
  \/ \E i \in 1..Len(qrJobs) : OnQREncoded(i)
  \/ \E accountId \in Accounts : OnOpen(accountId)
  \/ \E phoneNumber \in StorePhones : PostGenerateCode(phoneNumber)
  \/ TimeNext

SpecSweep == InitPart /\ [][SweepNext]_vars /\ WF_vars(Sweep)

\* The connection lifecycle on its own; a setTimeout(initWhatsApp, delay)
\* that is outstanding fires.
SpecInit ==
  /\ Init
  /\ [][ConnNext]_vars
  /\ WF_vars(\E i \in 1..Len(initTimers) : InitTimerFire(i))

\* --------------------- pairing-server.js: status and verifyPairingCodeInBot
\* The answer of app.get('/api/pairing-status/:code')
PairingStatusBody(code) ==
  IF byPairingCode(code) = {}
    THEN [ success |-> FALSE, kind |-> "not_found", status |-> Null,
           sessionId |-> NoSession, expiresAt |-> NullTime,
           linkedAt |-> NullTime ]
    ELSE LET d == CHOOSE e \in byPairingCode(code) : TRUE
         IN [ success |-> TRUE, kind |-> "ok", status |-> d.status,
              sessionId |-> d.sessionId, expiresAt |-> d.expiresAt,
              linkedAt |-> d.linkedAt ]

\* app.get('/api/pairing-status/:code'): findOne and the answer; it writes
\* nothing.
ApiPairingStatus(code) ==
  /\ PairingStatusBody(code).success = (byPairingCode(code) # {})
  /\ UNCHANGED vars

\* verifyPairingCodeInBot(pairingCode) up to its first await, the fetch of
\* /api/pairing-status
VerifyBegin(code) ==
  /\ Cardinality(verifyJobs) < MaxVerifyCalls
  /\ verifyJobs' = verifyJobs \cup
       { [ id |-> Cardinality(verifyJobs) + 1, code |-> code, pc |-> "status",
           sessionId |-> NoSession ] }
  /\ lastOp' = Internal
  /\ UNCHANGED << memVars, sessionBudget, genVars, pairingDocs,
                  botSessionDocs, codeJobs, linkJobs, nextJob, now >>

\* data.success && data.status === 'pending'
VerifyAccepts(data) == data.success /\ data.status = "pending"

\* The status request is answered and the call resumes: it sends the POST
\* to /api/pairing-linked, or returns { valid: false }.
VerifyStatusDone(job) ==
  /\ job \in verifyJobs
  /\ job.pc = "status"
  /\ LET data == PairingStatusBody(job.code)
     IN verifyJobs' = (verifyJobs \ {job}) \cup
          { IF VerifyAccepts(data)
              THEN [ job EXCEPT !.pc = "link", !.sessionId = data.sessionId ]
              ELSE [ job EXCEPT !.pc = "invalid" ] }
  /\ lastOp' = Internal
  /\ UNCHANGED << memVars, sessionBudget, genVars, pairingDocs,
                  botSessionDocs, codeJobs, linkJobs, nextJob, now >>

\* The POST is handled (the two updates of /api/pairing-linked, whose
\* answer the call does not look at) and the call returns { valid: true }.
VerifyLinkDone(job) ==
  /\ job \in verifyJobs
  /\ job.pc = "link"
  /\ pairingDocs' =
       { IF d.pairingCode = job.code THEN markActive(d) ELSE d : d \in pairingDocs }
  /\ botSessionDocs' =
       { IF \E d \in byPairingCode(job.code) : b.sessionId = d.sessionId
           THEN [ b EXCEPT !.status = "active", !.lastActive = now ]
           ELSE b : b \in botSessionDocs }
  /\ verifyJobs' = (verifyJobs \ {job}) \cup { [ job EXCEPT !.pc = "valid" ] }
  /\ lastOp' = Ran("verify", Null, [ NoResponse EXCEPT !.success = TRUE, !.kind = "valid" ])
  /\ UNCHANGED << memVars, sessionBudget, genVars, codeJobs, linkJobs,
                  nextJob, now >>

\* The bot verifying the codes users type in, against the pairing service.
VerifyNext ==
  \/ ApiGenerateCode(Str9a)
  \/ \E job \in codeJobs : FindExistingDone(job)
  \/ \E job \in codeJobs : FindUniqueDone(job)
  \/ \E job \in codeJobs : SaveDone(job)
  \/ \E job \in codeJobs : SaveBotDone(job)
  \/ \E code \in LinkCodes : ApiPairingStatus(code)
  \/ \E code \in LinkCodes : VerifyBegin(code)
  \/ \E job \in verifyJobs : VerifyStatusDone(job)
  \/ \E job \in verifyJobs : VerifyLinkDone(job)
  \/ \E d \in pairingDocs : TTLDelete(d)
  \/ Tick

SpecVerify == InitMongo /\ [][VerifyNext]_vars

\* Everything side by side: the in-memory server, the pairing service and
\* the generator.
Next == ConnNext \/ ApiNext \/ TimeNext \/ MongoNext \/ VerifyNext \/ GenNext

Spec == Init /\ [][Next]_vars

\* ====================================================================
\* Claims
\* ====================================================================

\* Where the store holds the record that timer t's own generateNewPairingCode
\* call stored.
OwnCodes(store, t) == { c \in DOMAIN store : store[c].serial = t.serial }

\* C1: the expiry action scheduled at creation removes the record under its
\* code if and only if that record is pending when the action fires, and a
\* session that connection-open marked linked before the action fires is
\* still in the store, linked, after it fires.
C1_ExpiryKeepsLinkedSession ==
  [][ \A t \in expiryTimers :
        ExpiryFire(t) =>
          /\ (pairingCodes' # pairingCodes) <=>
               (has(t.code) /\ pairingCodes[t.code].status = "pending")
          /\ t.serial \in everLinked =>
               \E c \in OwnCodes(pairingCodes', t) :
                 pairingCodes'[c].status = "linked" ]_vars

\* C2: no create replaces the record of a live session: a code that stays in
\* the store keeps the record (the session) it held.
C2_CreateNeverOverwrites ==
  [][ \A c \in DOMAIN pairingCodes :
        c \in DOMAIN pairingCodes' =>
          pairingCodes'[c].serial = pairingCodes[c].serial ]_vars

\* C3: every key of the session store is CODE_LENGTH characters long, over
\* A-Z and 0-9, with at least one letter and at least one digit.
C3_CodeShape ==
  \A c \in DOMAIN pairingCodes :
    /\ Len(c) = CODE_LENGTH
    /\ \A k \in 1..Len(c) : c[k] \in UpperLetters \cup DigitChars
    /\ \E k \in 1..Len(c) : c[k] \in UpperLetters
    /\ \E k \in 1..Len(c) : c[k] \in DigitChars

\* C4: a close with the logged-out reason leaves ConnectionState
\* disconnected and the stored credentials cleared, and schedules no
\* reconnect.
C4_LogoutDisconnects ==
  [][ OnClose("loggedOut") =>
        /\ botStatus' = "disconnected"
        /\ authFiles' = FALSE
        /\ initTimers' = initTimers
        /\ initRunning' = initRunning ]_vars

\* C5: a close with any other reason leaves ConnectionState reconnecting
\* and schedules one re-initialization.
C5_CloseReconnects ==
  [][ \A reason \in CloseReasons \ {"loggedOut"} :
        OnClose(reason) =>
          /\ botStatus' = "reconnecting"
          /\ Len(initTimers') = Len(initTimers) + 1 ]_vars

\* C6: handling a QR event (the handler up to its await, and its
\* continuation) sets ConnectionState to qr_ready, stores the payload and
\* leaves the session store as it was.
C6_QRLeavesStore ==
  [][ /\ \A qr \in QRPayloads :
           OnQR(qr) => /\ botStatus' = "qr_ready"
                       /\ currentQR' = qr
                       /\ pairingCodes' = pairingCodes
      /\ \A i \in 1..Len(qrJobs) :
           (OnQREncoded(i) \/ OnQREncodeError(i)) =>
             pairingCodes' = pairingCodes ]_vars

\* C7: connection-open with account id A sets ConnectionState to online
\* and turns every pending session into a linked one with linkedAt the time
\* of the event and linkedTo = A; no pending session remains.
C7_OpenLinksPending ==
  [][ \A accountId \in Accounts :
        OnOpen(accountId) =>
          /\ botStatus' = "online"
          /\ \A c \in DOMAIN pairingCodes :
               pairingCodes[c].status = "pending" =>
                 /\ c \in DOMAIN pairingCodes'
                 /\ pairingCodes'[c].status = "linked"
                 /\ pairingCodes'[c].linkedAt = now
                 /\ pairingCodes'[c].linkedTo = accountId
          /\ \A c \in DOMAIN pairingCodes' :
               pairingCodes'[c].status # "pending" ]_vars

\* C8: connection-open changes only the sessions that are pending when it
\* runs (a linked session keeps its record, linkedAt and linkedTo), and a
\* second open right after the first, at any later time and for any account,
\* changes no session.
C8_OpenOnlyPendingIdempotent ==
  [][ \A accountId \in Accounts :
        OnOpen(accountId) =>
          /\ DOMAIN pairingCodes' = DOMAIN pairingCodes
          /\ \A c \in DOMAIN pairingCodes :
               pairingCodes[c].status # "pending" =>
                 pairingCodes'[c] = pairingCodes[c]
          /\ \A again \in Accounts, at \in now..MaxTime :
               markPendingLinked(pairingCodes', at, again) = pairingCodes' ]_vars

\* An open was handled at `now` that found one session pending and another
\* already linked earlier.
C8_Witness ==
  /\ lastOp.op = "open"
  /\ \E c, d \in DOMAIN pairingCodes :
       /\ pairingCodes[c].status = "linked"
       /\ pairingCodes[c].linkedAt = now
       /\ pairingCodes[d].status = "linked"
       /\ pairingCodes[d].linkedAt < now

\* Exactly nine decimal digits.
NineDigits(phoneNumber) ==
  /\ Len(phoneNumber) = 9
  /\ \A k \in DOMAIN phoneNumber :
       phoneNumber[k] \in {"0", "1", "2", "3", "4", "5", "6", "7", "8", "9"}

Ready == botStatus \in {"qr_ready", "online"}

\* C9: requestCode for a number that is not exactly nine digits, or while
\* ConnectionState is neither qr_ready nor online, is rejected: it answers
\* without a code and creates nothing.
C9_RequestCodeRejected ==
  [][ \A phoneNumber \in PhoneInputs :
        ( /\ lastOp'.op = "generate-code"
          /\ ~NineDigits(phoneNumber) \/ ~Ready
          /\ PostGenerateCode(phoneNumber) ) =>
          /\ ~lastOp'.response.success
          /\ lastOp'.response.code = NullCode
          /\ lastOp'.response.kind =
               (IF ~NineDigits(phoneNumber) THEN "invalid_phone" ELSE "not_ready")
          /\ UNCHANGED storeVars ]_vars

\* A well-formed request was refused as not ready while the connection was
\* in error or reconnecting.
C9_Witness ==
  /\ lastOp.op = "generate-code"
  /\ lastOp.response.kind = "not_ready"
  /\ botStatus \in {"error", "reconnecting"}

QRAvailable == botStatus = "qr_ready" /\ currentQR # Null

\* C11: requestQR while ConnectionState has no QR available and is not
\* online is rejected and creates no session; a request that succeeds, and
\* the session it creates, come about in state qr_ready with a stored QR
\* payload or in state online.
C11_RequestQRNeedsReady ==
  [][ /\ \A phoneNumber \in PhoneInputs :
           ( /\ ~QRAvailable /\ botStatus # "online"
             /\ PostGetQR(phoneNumber) ) =>
             /\ lastOp'.op = "getqr"
             /\ ~lastOp'.response.success
             /\ UNCHANGED << storeVars, getqrJobs >>
      /\ \A i \in 1..Len(getqrJobs) :
           GetQREncoded(i) => QRAvailable \/ botStatus = "online" ]_vars

\* C12: a session's status changes only from pending to linked, expired or
\* used: the record under a code that stays in the store never changes
\* status once it has left pending, and never goes back to pending.
C12_StatusMonotonic ==
  [][ \A c \in DOMAIN pairingCodes :
        ( /\ c \in DOMAIN pairingCodes'
          /\ pairingCodes'[c].status # pairingCodes[c].status ) =>
          /\ pairingCodes[c].status = "pending"
          /\ pairingCodes'[c].status \in {"linked", "expired", "used"} ]_vars

\* C13: markLinked (POST /api/pairing-linked/:code) for a code whose record
\* is not pending leaves the record as it is: neither its status nor its
\* linkedAt changes.
C13_MarkLinkedOnlyFromPending ==
  [][ \A code \in LinkCodes :
        ApiPairingLinked(code) =>
          \A d \in byPairingCode(code) :
            d.status # "pending" =>
              \E e \in byPairingCode(code)' :
                e.status = d.status /\ e.linkedAt = d.linkedAt ]_vars

\* C14: markLinkedByCode for a code without a record answers not-found and
\* changes no pairing record and no bot-session record; for a code whose
\* record is pending the record becomes active with linkedAt set to the
\* time of the call, and the call answers success.
C14_MarkLinkedByCode ==
  [][ /\ \A code \in LinkCodes :
           ApiPairingLinked(code) =>
             IF byPairingCode(code) = {}
               THEN /\ lastOp'.response.kind = "not_found"
                    /\ ~lastOp'.response.success
                    /\ UNCHANGED << pairingDocs, botSessionDocs, linkJobs >>
               ELSE /\ Len(linkJobs') = Len(linkJobs) + 1
                    /\ \A d \in byPairingCode(code) :
                         d.status = "pending" =>
                           \E e \in byPairingCode(code)' :
                             /\ e.status = "active"
                             /\ e.linkedAt = now
                             /\ e.linkedAt # NullTime
      /\ \A i \in 1..Len(linkJobs) :
           PairingLinkedDone(i) =>
             /\ lastOp'.op = "api-pairing-linked"
             /\ lastOp'.response.success ]_vars

\* A mark-linked call answered success for a record that was created
\* earlier, is now active, and whose bot session is active too.
C14_Witness ==
  /\ lastOp.op = "api-pairing-linked"
  /\ lastOp.response.success
  /\ \E d \in pairingDocs :
       /\ d.status = "active"
       /\ d.linkedAt = now
       /\ d.createdAt < now
       /\ \E b \in botSessionDocs :
            b.sessionId = d.sessionId /\ b.status = "active"

\* C15: a create request whose phone number no stored record carries
\* succeeds, whatever other requests are in flight: its save inserts its
\* record, and the codes of the stored records are pairwise distinct.
C15_ConcurrentCreatesSucceed ==
  [][ \A job \in codeJobs :
        ( /\ \A d \in pairingDocs : d.fullNumber # job.fullNumber
          /\ SaveDone(job) ) =>
          /\ PairingRecord(job) \in pairingDocs'
          /\ \A d, e \in pairingDocs' :
               d.pairingCode = e.pairingCode => d = e ]_vars

\* C16: when the code a request sampled is held by a stored record,
\* whatever that record's status, the request samples again, and its save
\* never ends in the error answer because of the code.
C16_CollisionNeverSurfaced ==
  [][ \A job \in codeJobs :
        /\ ( /\ byPairingCode(job.pairingCode) # {}
             /\ FindUniqueDone(job) ) =>
             \E j \in codeJobs' : j.id = job.id /\ j.pc = "findUnique"
        /\ ( /\ \E d \in byPairingCode(job.pairingCode) :
                  d.fullNumber # job.fullNumber
             /\ SaveDone(job) ) =>
             lastOp'.response.kind # "internal_error" ]_vars

\* C17: the collision loop of generateNewPairingCode takes at most
\* MaxAttempts samples, and the code under which a create inserts its record,
\* sampled or suffixed, is not in the store just before the insertion.
C17_InsertedCodeWasAbsent ==
  [][ /\ \A e \in CollisionLoop(0) : e[2] <= MaxAttempts
      /\ nextSerial' = nextSerial + 1 =>
           \A c \in DOMAIN pairingCodes' :
             pairingCodes'[c].serial = nextSerial' => ~has(c) ]_vars

\* C18: a call of generateAlphanumericCode returns: whatever the draws, the
\* resampling that enforces a letter and a digit comes to an end.
C18_GeneratorTerminates == (genPhase = "loop") ~> (genPhase = "returned")

\* C19: a sweep pass at time now removes every pending record with
\* expiresAt <= now and leaves every other record in the store, unchanged.
C19_SweepRemovesExpiredPending ==
  [][ Sweep =>
        \A c \in DOMAIN pairingCodes :
          IF /\ pairingCodes[c].status = "pending"
             /\ pairingCodes[c].expiresAt <= now
            THEN c \notin DOMAIN pairingCodes'
            ELSE /\ c \in DOMAIN pairingCodes'
                 /\ pairingCodes'[c] = pairingCodes[c] ]_vars

\* The pending records whose expiresAt has passed.
ExpiredPending(store) ==
  { c \in DOMAIN store :
      store[c].status = "pending" /\ store[c].expiresAt < now }

\* C20: a pending record whose expiresAt has passed is gone after the next
\* sweep pass, which comes whether or not the record's own timer fires.
C20_ExpiredPendingSwept ==
  /\ [][ Sweep => ExpiredPending(pairingCodes') = {} ]_vars
  /\ (ExpiredPending(pairingCodes) # {}) ~> (ExpiredPending(pairingCodes) = {})

\* A sweep pass has removed a pending record that was past its expiresAt
\* while the record's own timer had not fired.
C20_Witness ==
  /\ lastOp.op = "sweep"
  /\ \E t \in expiryTimers :
       /\ t.due < now
       /\ t.serial \notin everLinked
       /\ \A c \in DOMAIN pairingCodes : pairingCodes[c].serial # t.serial

\* C21: a failed initialization sets ConnectionState to error and schedules
\* one retry after InitRetryDelay, whatever the number of failures before
\* it, and a scheduled retry is followed by another run of initWhatsApp.
C21_InitFailureRetries ==
  /\ [][ InitFail => /\ botStatus' = "error"
                     /\ initTimers' = Append(initTimers, InitRetryDelay) ]_vars
  /\ (initTimers # << >>) ~> (initRunning > 0 /\ botStatus = "connecting")

\* An initialization has just failed: the state is error and its retry is
\* the one outstanding timer.
C21_Witness ==
  /\ botStatus = "error"
  /\ initRunning = 0
  /\ liveSockets = 0
  /\ initTimers = << InitRetryDelay >>

\* The codes under which the store holds the record created last.
NewestCodes(store, serial) == { c \in DOMAIN store : store[c].serial = serial }

\* C22: a create inserts exactly one record: pending, linkedAt and linkedTo
\* unset, expiresAt = creation time + CODE_EXPIRY_MINUTES; it schedules
\* exactly one expiry action, for that record's code and that instant; every
\* other record of the store is one that was there, as it was; and the
\* answer carries the record's code, sessionId and expiresAt.
C22_CreateInsertsOnePending ==
  [][ nextSerial' = nextSerial + 1 =>
        /\ Cardinality(NewestCodes(pairingCodes', nextSerial')) = 1
        /\ \A c \in NewestCodes(pairingCodes', nextSerial') :
             LET data == pairingCodes'[c]
             IN /\ data.code = c
                /\ data.status = "pending"
                /\ data.linkedAt = NullTime
                /\ data.linkedTo = Null
                /\ data.createdAt = now
                /\ data.expiresAt = now + CODE_EXPIRY_MINUTES
                /\ expiryTimers' \ expiryTimers =
                     { [ code |-> c, due |-> data.expiresAt, serial |-> nextSerial' ] }
                /\ expiryTimers \subseteq expiryTimers'
                /\ lastOp'.op = "generate-code" =>
                     /\ lastOp'.response.code = c
                     /\ lastOp'.response.sessionId = data.sessionId
                     /\ lastOp'.response.expiresAt = data.expiresAt
        /\ \A c \in DOMAIN pairingCodes' \ NewestCodes(pairingCodes', nextSerial') :
             c \in DOMAIN pairingCodes /\ pairingCodes'[c] = pairingCodes[c] ]_vars

\* A second session was created, later than the first, by a request that
\* was answered with its code; both sessions and both timers are there.
C22_Witness ==
  /\ lastOp.op = "generate-code"
  /\ lastOp.response.success
  /\ nextSerial = 2
  /\ Cardinality(DOMAIN pairingCodes) = 2
  /\ Cardinality(expiryTimers) = 2
  /\ \E c \in DOMAIN pairingCodes :
       /\ pairingCodes[c].serial = 2
       /\ pairingCodes[c].createdAt > 0
       /\ lastOp.response.code = c

\* C23: ConnectionState is always one of the six states, and a step that
\* changes it is a step of initialization (the top-level call, a retry or
\* reconnect timer, the catch) or the handling of a QR, open or close
\* event: no HTTP handler changes it.
C23_StateChangedByTrackerOnly ==
  /\ botStatus \in BotStatuses
  /\ [][ /\ botStatus' \in BotStatuses
         /\ botStatus' # botStatus =>
              \/ Start
              \/ \E i \in 1..Len(initTimers) : InitTimerFire(i)
              \/ InitFail
              \/ \E qr \in QRPayloads : OnQR(qr)
              \/ \E accountId \in Accounts : OnOpen(accountId)
              \/ \E reason \in CloseReasons : OnClose(reason) ]_vars

\* A QR request was answered with a code while the connection was
\* reconnecting after a close, and the state is still reconnecting.
C23_Witness ==
  /\ lastOp.op = "getqr"
  /\ lastOp.response.success
  /\ botStatus = "reconnecting"
  /\ initTimers # << >>

\* The sessions that are live: pending or linked.
LiveCodes == { c \in DOMAIN pairingCodes :
                 pairingCodes[c].status \in {"pending", "linked"} }

\* C24: the body of GET /status carries the current ConnectionState and a
\* count equal to the number of live sessions in the store, and the store
\* holds no record whose status is expired or used.
C24_StatusCountsLiveSessions ==
  /\ StatusBody.bot = botStatus
  /\ StatusBody.pairingCodes = Cardinality(LiveCodes)
  /\ \A c \in DOMAIN pairingCodes :
       pairingCodes[c].status \notin {"expired", "used"}

\* The store holds a linked session and a pending one that is past its
\* expiresAt; the status body counts both.
C24_Witness ==
  /\ StatusBody.pairingCodes = 2
  /\ \E c, d \in DOMAIN pairingCodes :
       /\ pairingCodes[c].status = "linked"
       /\ pairingCodes[d].status = "pending"
       /\ pairingCodes[d].expiresAt < now

\* The verifyPairingCodeInBot calls that returned valid for one session
\* of one code.
ValidCalls(code, sessionId) ==
  { job \in verifyJobs :
      job.pc = "valid" /\ job.code = code /\ job.sessionId = sessionId }

\* C25: a pairing code is accepted once: of the verifyPairingCodeInBot calls
\* made for the same code and session, however they interleave, at most one
\* returns valid.
C25_CodeVerifiedOnce ==
  \A job \in verifyJobs :
    Cardinality(ValidCalls(job.code, job.sessionId)) <= 1

\* C28: a record that was marked active before its expiresAt is not
\* deleted when its TTL elapses: the expire-after index does not remove it,
\* and after every step pairing-status still returns it, active.
C28_TTLKeepsLinkedRecord ==
  [][ \A d \in pairingDocs :
        (d.status = "active" /\ d.linkedAt < d.expiresAt) =>
          /\ ~TTLDelete(d)
          /\ PairingStatusBody(d.pairingCode)'.success
          /\ PairingStatusBody(d.pairingCode)'.status = "active" ]_vars

\* C29: no session is linked, or reported valid, after its expiresAt: a
\* verifyPairingCodeInBot call that finds a pending record past its
\* expiresAt returns invalid, and the update of /api/pairing-linked leaves
\* such a record as it is.
C29_NoLinkAfterExpiry ==
  [][ /\ \A job \in verifyJobs :
           ( /\ \E d \in byPairingCode(job.code) : d.expiresAt < now
             /\ VerifyStatusDone(job) ) =>
             \E j \in verifyJobs' : j.id = job.id /\ j.pc = "invalid"
      /\ \A d \in pairingDocs :
           (d.status = "pending" /\ d.expiresAt < now) =>
             \A e \in pairingDocs' :
               e.pairingCode = d.pairingCode => e.status # "active" ]_vars

\* C26: a pending session is never removed from the store before its own
\* expiresAt, and an expiry action removes only the session that scheduled
\* it: every record a step takes out of the store while pending has reached
\* its expiresAt, and every record a firing expiry action takes out is the
\* one stored by the call that set the timer.
C26_ExpiryRemovesOwnSession ==
  [][ /\ \A c \in DOMAIN pairingCodes \ DOMAIN pairingCodes' :
           pairingCodes[c].status = "pending" =>
             pairingCodes[c].expiresAt <= now
      /\ \A t \in expiryTimers :
           ExpiryFire(t) =>
             \A c \in DOMAIN pairingCodes \ DOMAIN pairingCodes' :
               pairingCodes[c].serial = t.serial ]_vars

\* C27: at the moment any session record is inserted into the store,
\* ConnectionState is qr_ready or online, whichever handler inserts it:
\* generate-code, getqr after its QR encoding, or the QR event's handler.
C27_InsertOnlyWhenReady ==
  [][ nextSerial' = nextSerial + 1 => Ready ]_vars

\* C30: in the collision loop of part_000's create the suffix fallback is
\* used only when every permitted sample collided: whenever a create inserts
\* a record, each way its loop can end on a sample that is not in the store,
\* the last permitted sample included, keeps that sample as the code.
C30_FallbackOnlyAfterAllCollide ==
  [][ (variant = "part" /\ nextSerial' = nextSerial + 1) =>
        \A e \in CollisionLoop(0) :
          ~has(e[1]) => ~FallbackTaken(e[2]) ]_vars

\* C31: generate-code for a well-formed number never fails because of
\* records earlier requests left for that number: when the number has a
\* pending unexpired code the request answers with it, and when it has none
\* (and no record holds the sampled code) the save inserts the new record
\* and does not end in the error answer.
C31_PriorRecordsNeverFail ==
  [][ \A job \in codeJobs :
        /\ ( /\ existingCode(job) # {}
             /\ FindExistingDone(job) ) =>
             /\ lastOp'.response.success
             /\ \E d \in existingCode(job) : lastOp'.response.code = d.pairingCode
        /\ ( /\ existingCode(job) = {}
             /\ byPairingCode(job.pairingCode) = {}
             /\ SaveDone(job) ) =>
             /\ PairingRecord(job) \in pairingDocs'
             /\ lastOp'.response.kind # "internal_error" ]_vars

\* The pending unexpired records of a full phone number.
PendingUnexpired(number) ==
  { d \in pairingDocs : /\ d.fullNumber = number
                 /\ d.status = "pending"
                 /\ d.expiresAt > now }

\* C32: generate-code for a number that has a pending unexpired code
\* answers with that code and its expiresAt and leaves both collections as
\* they are, and after every step, concurrent requests included, a full
\* phone number has at most one pending unexpired code.
C32_RepeatReturnsSameCode ==
  [][ /\ \A job \in codeJobs :
           ( /\ existingCode(job) # {}
             /\ FindExistingDone(job) ) =>
             /\ \E d \in existingCode(job) :
                  /\ lastOp'.response.code = d.pairingCode
                  /\ lastOp'.response.expiresAt = d.expiresAt
             /\ UNCHANGED << pairingDocs, botSessionDocs >>
      /\ \A d \in pairingDocs' :
           Cardinality(PendingUnexpired(d.fullNumber)') <= 1 ]_vars

\* A repeated request was answered with the stored code while another
\* request for the same number was in flight.
C32_Witness ==
  /\ lastOp.op = "api-generate-code"
  /\ lastOp.response.kind = "existing"
  /\ \E d \in pairingDocs :
       /\ d.pairingCode = lastOp.response.code
       /\ PendingUnexpired(d.fullNumber) = {d}
       /\ \E job \in codeJobs : job.fullNumber = d.fullNumber

\* C33: a generate-code or getqr request that is turned away, for a
\* malformed phone number or because the connection is not ready, is
\* answered without success and leaves the session store, the last
\* generated code, ConnectionState and the expiry timers as they were.
C33_RejectedRequestChangesNothing ==
  [][ \A phoneNumber \in PhoneInputs :
        /\ ( /\ ~validPhone(phoneNumber) \/ ~Ready
             /\ PostGenerateCode(phoneNumber) ) =>
             /\ ~lastOp'.response.success
             /\ UNCHANGED << pairingCodes, lastGeneratedCode, botStatus,
                             expiryTimers, nextSerial >>
        /\ ( /\ ~validPhone(phoneNumber) \/ (~QRAvailable /\ botStatus # "online")
             /\ PostGetQR(phoneNumber) ) =>
             /\ ~lastOp'.response.success
             /\ UNCHANGED << pairingCodes, lastGeneratedCode, botStatus,
                             expiryTimers, nextSerial, getqrJobs >> ]_vars

\* A request was turned away for want of a ready connection while the store
\* held a session.
C33_Witness ==
  /\ lastOp.op \in {"generate-code", "getqr"}
  /\ lastOp.response.kind = "not_ready"
  /\ DOMAIN pairingCodes # {}

\* C34: at any time at most one initialization of the connection is
\* scheduled or in progress, and at most one connection is live: whatever
\* closes and failures occur, the reconnect and retry timers outstanding and
\* the initWhatsApp calls under way number one at most together.
C34_SingleInitialization ==
  /\ Len(initTimers) + initRunning <= 1
  /\ liveSockets <= 1
  /\ liveSockets = 1 => Len(initTimers) + initRunning = 0

\* A close has left one reconnect timer outstanding and no connection.
C34_Witness ==
  /\ lastOp.op = "close"
  /\ Len(initTimers) = 1
  /\ initRunning = 0
  /\ liveSockets = 0

\* C35: every initialization attempt, the first one and each reconnect or
\* retry, sets ConnectionState to connecting, and does so before an event of
\* the new connection is handled: a QR, open or close event is never handled
\* in state reconnecting or error, and a step that leaves reconnecting or
\* error leads to connecting.
C35_InitSetsConnectingFirst ==
  [][ /\ (Start \/ \E i \in 1..Len(initTimers) : InitTimerFire(i)) =>
           botStatus' = "connecting"
      /\ ( \/ \E qr \in QRPayloads : OnQR(qr)
           \/ \E accountId \in Accounts : OnOpen(accountId)
           \/ \E reason \in CloseReasons : OnClose(reason) ) =>
           botStatus \notin {"reconnecting", "error"}
      /\ (botStatus \in {"reconnecting", "error"} /\ botStatus' # botStatus) =>
           botStatus' = "connecting" ]_vars

\* A reconnect or retry is under way in state connecting: the store holds a
\* session of an earlier connection.
C35_Witness ==
  /\ botStatus = "connecting"
  /\ initRunning = 1
  /\ DOMAIN pairingCodes # {}

\* C36: the status and health responses reveal no pairing code: what they
\* carry is settled by ConnectionState and the number of stored sessions, so
\* the field that could name a code is empty whichever codes were issued.
C36_StatusRevealsNoCode ==
  started =>
    /\ StatusBody = [ bot |-> botStatus, hasQR |-> (botStatus = "qr_ready"),
                      pairingCodes |-> Cardinality(DOMAIN pairingCodes),
                      lastCode |-> NullCode ]
    /\ HealthBody = [ status |-> "running", bot |-> botStatus,
                      qrReady |-> (botStatus = "qr_ready"),
                      codes |-> Cardinality(DOMAIN pairingCodes),
                      lastGeneratedCode |-> NullCode ]

=============================================================================
